---- MODULE Spec2Model ----
(***************************************************************************)
(* A model of ipmanlk/redis-clone: the RESP codec (resp.go), the command   *)
(* handlers and the append-only file (handler.go), and the server loop     *)
(* (main.go).                                                              *)
(*                                                                         *)
(* A byte is a one-character string; a byte string (Go string / []byte) is *)
(* a sequence of bytes.  A stream is a sequence of bytes in which the      *)
(* token CHUNK marks the end of what one read of the underlying io.Reader  *)
(* returns (a TCP segment boundary); CHUNK is not a byte.                  *)
(***************************************************************************)
EXTENDS Integers, Sequences, FiniteSets, TLC

\* ------------------------------------------------------------------------
\* Bounds of the model
\* ------------------------------------------------------------------------

\* Connections the accept loop hands to workers.
NumWorkers == 2

\* Chunks all clients together send in one run.
MaxRequests == 3

\* The size of the buffer of the bufio.Reader that Aof.Read puts on the file
\* (4096 in Go; the files of the model are as much shorter).
BufSize == 40

\* ------------------------------------------------------------------------
\* Bytes
\* ------------------------------------------------------------------------

CR == "\r"
LF == "\n"
CHUNK == "|"
NUL == "NUL"

FB_SIMPLE_STRING == "+"
FB_SIMPLE_ERROR == "-"
FB_INTEGER == ":"
FB_BULK_STRING == "$"
FB_ARRAY == "*"

ValueTypSimpleString == "SIMPLE_STRING"
ValueTypSimpleError == "SIMPLE_ERROR"
ValueTypInteger == "INTEGER"
ValueTypBulkString == "BULK_STRING"
ValueTypArray == "ARRAY"
ValueTypNull == "NULL"

Digits == <<"0", "1", "2", "3", "4", "5", "6", "7", "8", "9">>

LowerCase == <<"a", "b", "c", "d", "e", "f", "g", "h", "i", "j", "k", "l", "m",
               "n", "o", "p", "q", "r", "s", "t", "u", "v", "w", "x", "y", "z">>

UpperCase == <<"A", "B", "C", "D", "E", "F", "G", "H", "I", "J", "K", "L", "M",
               "N", "O", "P", "Q", "R", "S", "T", "U", "V", "W", "X", "Y", "Z">>

IsDigit(b) == \E i \in 1..10 : Digits[i] = b

DigitVal(b) == (CHOOSE i \in 1..10 : Digits[i] = b) - 1

\* A comparison of command names that minds the case
ToUpperNot(s) == s

\* strings.ToUpper on a byte string of ASCII letters
ToUpper(s) ==
    [i \in 1..Len(s) |->
        IF \E j \in 1..26 : LowerCase[j] = s[i]
        THEN UpperCase[CHOOSE j \in 1..26 : LowerCase[j] = s[i]]
        ELSE s[i]]

\* strconv.Itoa for n >= 0
RECURSIVE Itoa(_)
Itoa(n) == IF n < 10 THEN <<Digits[n + 1]>>
           ELSE Itoa(n \div 10) \o <<Digits[(n % 10) + 1]>>

\* The value of a non-empty string of decimal digits
RECURSIVE DecVal(_)
DecVal(s) == IF Len(s) = 0 THEN 0
             ELSE 10 * DecVal(SubSeq(s, 1, Len(s) - 1)) + DigitVal(s[Len(s)])

\* strconv.ParseInt(line, 10, 64): an optional sign, then one or more digits
ParseInt(line) ==
    LET signed == Len(line) > 0 /\ line[1] \in {"+", "-"}
        digits == IF signed THEN Tail(line) ELSE line
    IN  IF Len(digits) = 0 \/ \E i \in 1..Len(digits) : ~IsDigit(digits[i])
        THEN [x |-> 0, err |-> "syntax"]
        ELSE [x |-> IF signed /\ line[1] = "-" THEN 0 - DecVal(digits) ELSE DecVal(digits),
              err |-> "nil"]

\* ------------------------------------------------------------------------
\* Value (resp.go)
\* ------------------------------------------------------------------------

\* The zero Value, Value{}
ZeroValue == [typ |-> "", str |-> <<>>, num |-> 0, bulk |-> <<>>, array |-> <<>>]

SimpleString(s) == [ZeroValue EXCEPT !.typ = ValueTypSimpleString, !.str = s]
SimpleError(s) == [ZeroValue EXCEPT !.typ = ValueTypSimpleError, !.str = s]
BulkString(b) == [ZeroValue EXCEPT !.typ = ValueTypBulkString, !.bulk = b]
Array(a) == [ZeroValue EXCEPT !.typ = ValueTypArray, !.array = a]
Null == [ZeroValue EXCEPT !.typ = ValueTypNull]

\* ------------------------------------------------------------------------
\* Decoder (resp.go).  Every read returns what it read, the error ("nil",
\* "EOF", "syntax": a strconv error, "panic": a run-time panic) and the rest
\* of the stream.
\* ------------------------------------------------------------------------

\* bufio.Reader with an empty buffer reads the next chunk of the stream
RECURSIVE Fill(_)
Fill(s) == IF Len(s) > 0 /\ Head(s) = CHUNK THEN Fill(Tail(s)) ELSE s

\* The bytes bufio.Reader holds: those before the next chunk boundary
RECURSIVE Buffered(_)
Buffered(s) == IF Len(s) = 0 \/ Head(s) = CHUNK THEN <<>>
               ELSE <<Head(s)>> \o Buffered(Tail(s))

RECURSIVE readLineFrom(_, _)
readLineFrom(s, line) ==
    LET t == Fill(s)
    IN  IF Len(t) = 0
        THEN [line |-> <<>>, err |-> "EOF", rest |-> <<>>]
        ELSE LET l == Append(line, Head(t))
             IN  IF Len(l) >= 2 /\ l[Len(l) - 1] = CR
                 THEN [line |-> SubSeq(l, 1, Len(l) - 2), err |-> "nil", rest |-> Tail(t)]
                 ELSE readLineFrom(Tail(t), l)

readLine(s) == readLineFrom(s, <<>>)

readInteger(s) ==
    LET l == readLine(s)
        p == ParseInt(l.line)
    IN  IF l.err # "nil" THEN [x |-> 0, err |-> l.err, rest |-> l.rest]
        ELSE IF p.err # "nil" THEN [x |-> 0, err |-> p.err, rest |-> l.rest]
        ELSE [x |-> p.x, err |-> "nil", rest |-> l.rest]

\* bufio.Reader.Read(p) with len(p) = n: at most one read of the underlying
\* reader, and no more bytes than are buffered after it
ReaderRead(s, n) ==
    LET t == Fill(s)
        k == IF Len(Buffered(t)) < n THEN Len(Buffered(t)) ELSE n
    IN  IF n = 0 THEN [bytes |-> <<>>, err |-> "nil", rest |-> s]
        ELSE IF Len(t) = 0 THEN [bytes |-> <<>>, err |-> "EOF", rest |-> <<>>]
        ELSE [bytes |-> SubSeq(t, 1, k), err |-> "nil", rest |-> SubSeq(t, k + 1, Len(t))]

readBulkString(s) ==
    LET v == BulkString(<<>>)
        n == readInteger(s)
        r == ReaderRead(n.rest, n.x)
        \* bulk := make([]byte, length): the bytes not read stay zero
        bulk == r.bytes \o [i \in 1..(n.x - Len(r.bytes)) |-> NUL]
        l == readLine(r.rest)
    IN  IF n.err # "nil" THEN [v |-> v, err |-> n.err, rest |-> n.rest]
        ELSE IF n.x < 0 THEN [v |-> v, err |-> "panic", rest |-> n.rest]
        ELSE IF r.err # "nil" THEN [v |-> v, err |-> r.err, rest |-> r.rest]
        ELSE [v |-> BulkString(bulk), err |-> l.err, rest |-> l.rest]

RECURSIVE Read(_)
RECURSIVE readElements(_, _, _)

readElements(s, length, array) ==
    IF Len(array) >= length
    THEN [v |-> Array(array), err |-> "nil", rest |-> s]
    ELSE LET e == Read(s)
         IN  IF e.err # "nil" THEN [v |-> Array(array), err |-> e.err, rest |-> e.rest]
             ELSE readElements(e.rest, length, Append(array, e.v))

readArray(s) ==
    LET n == readInteger(s)
    IN  IF n.err # "nil" THEN [v |-> Array(<<>>), err |-> n.err, rest |-> n.rest]
        \* make([]Value, 0, length) with a negative length
        ELSE IF n.x < 0 THEN [v |-> Array(<<>>), err |-> "panic", rest |-> n.rest]
        ELSE readElements(n.rest, n.x, <<>>)

Read(s) ==
    LET t == Fill(s)
    IN  IF Len(t) = 0 THEN [v |-> ZeroValue, err |-> "EOF", rest |-> <<>>]
        ELSE IF Head(t) = FB_ARRAY THEN readArray(Tail(t))
        ELSE IF Head(t) = FB_BULK_STRING THEN readBulkString(Tail(t))
        ELSE [v |-> ZeroValue, err |-> "nil", rest |-> Tail(t)]

\* ------------------------------------------------------------------------
\* Encoder (resp.go)
\* ------------------------------------------------------------------------

marshalSimpleString(v) == <<FB_SIMPLE_STRING>> \o v.str \o <<CR, LF>>

marshalBulkString(v) == <<FB_BULK_STRING>> \o Itoa(Len(v.bulk)) \o <<CR, LF>> \o v.bulk \o <<CR, LF>>

marshalError(v) == <<FB_SIMPLE_ERROR>> \o v.str \o <<CR, LF>>

marshalNull(v) == <<"$", "-", "1", CR, LF>>

RECURSIVE Marshal(_)
RECURSIVE marshalElements(_)

marshalElements(array) ==
    IF Len(array) = 0 THEN <<>>
    ELSE Marshal(Head(array)) \o marshalElements(Tail(array))

marshalArray(v) == <<FB_ARRAY>> \o Itoa(Len(v.array)) \o <<CR, LF>> \o marshalElements(v.array)

Marshal(v) ==
    IF v.typ = ValueTypArray THEN marshalArray(v)
    ELSE IF v.typ = ValueTypBulkString THEN marshalBulkString(v)
    ELSE IF v.typ = ValueTypSimpleString THEN marshalSimpleString(v)
    ELSE IF v.typ = ValueTypNull THEN marshalNull(v)
    ELSE IF v.typ = ValueTypSimpleError THEN marshalError(v)
    ELSE <<>>

\* ------------------------------------------------------------------------
\* Literals of main.go and handler.go
\* ------------------------------------------------------------------------

PING == <<"P", "I", "N", "G">>
SET == <<"S", "E", "T">>
GET == <<"G", "E", "T">>
HSET == <<"H", "S", "E", "T">>
HGET == <<"H", "G", "E", "T">>
HGETALL == <<"H", "G", "E", "T", "A", "L", "L">>

PONG == <<"P", "O", "N", "G">>
OK == <<"O", "K">>

\* "ERR invalid request, expected array"
ErrExpectedArray ==
    <<"E", "R", "R", " ", "i", "n", "v", "a", "l", "i", "d", " ", "r", "e", "q",
      "u", "e", "s", "t", ",", " ", "e", "x", "p", "e", "c", "t", "e", "d", " ",
      "a", "r", "r", "a", "y">>

\* "ERR invalid request, expected array length > 0"
ErrExpectedLength ==
    <<"E", "R", "R", " ", "i", "n", "v", "a", "l", "i", "d", " ", "r", "e", "q",
      "u", "e", "s", "t", ",", " ", "e", "x", "p", "e", "c", "t", "e", "d", " ",
      "a", "r", "r", "a", "y", " ", "l", "e", "n", "g", "t", "h", " ", ">", " ",
      "0">>

\* "ERR unknown command"
ErrUnknownCommand ==
    <<"E", "R", "R", " ", "u", "n", "k", "n", "o", "w", "n", " ", "c", "o", "m",
      "m", "a", "n", "d">>

\* "ERR failed to persist data"
ErrPersist ==
    <<"E", "R", "R", " ", "f", "a", "i", "l", "e", "d", " ", "t", "o", " ", "p",
      "e", "r", "s", "i", "s", "t", " ", "d", "a", "t", "a">>

\* "ERR wrong number of arguments for '"
ErrArgsPrefix ==
    <<"E", "R", "R", " ", "w", "r", "o", "n", "g", " ", "n", "u", "m", "b", "e",
      "r", " ", "o", "f", " ", "a", "r", "g", "u", "m", "e", "n", "t", "s", " ",
      "f", "o", "r", " ", "'">>

\* "' command"
ErrArgsSuffix ==
    <<"'", " ", "c", "o", "m", "m", "a", "n", "d">>

\* "ERR wrong number of arguments for 'set' command"
ErrArgsSet ==
    <<"E", "R", "R", " ", "w", "r", "o", "n", "g", " ", "n", "u", "m", "b", "e",
      "r", " ", "o", "f", " ", "a", "r", "g", "u", "m", "e", "n", "t", "s", " ",
      "f", "o", "r", " ", "'", "s", "e", "t", "'", " ", "c", "o", "m", "m", "a",
      "n", "d">>

\* "ERR wrong number of arguments for 'get' command"
ErrArgsGet ==
    <<"E", "R", "R", " ", "w", "r", "o", "n", "g", " ", "n", "u", "m", "b", "e",
      "r", " ", "o", "f", " ", "a", "r", "g", "u", "m", "e", "n", "t", "s", " ",
      "f", "o", "r", " ", "'", "g", "e", "t", "'", " ", "c", "o", "m", "m", "a",
      "n", "d">>

\* "ERR wrong number of arguments for 'hset' command"
ErrArgsHset ==
    <<"E", "R", "R", " ", "w", "r", "o", "n", "g", " ", "n", "u", "m", "b", "e",
      "r", " ", "o", "f", " ", "a", "r", "g", "u", "m", "e", "n", "t", "s", " ",
      "f", "o", "r", " ", "'", "h", "s", "e", "t", "'", " ", "c", "o", "m", "m",
      "a", "n", "d">>

\* "ERR wrong number of arguments for 'hget' command"
ErrArgsHget ==
    <<"E", "R", "R", " ", "w", "r", "o", "n", "g", " ", "n", "u", "m", "b", "e",
      "r", " ", "o", "f", " ", "a", "r", "g", "u", "m", "e", "n", "t", "s", " ",
      "f", "o", "r", " ", "'", "h", "g", "e", "t", "'", " ", "c", "o", "m", "m",
      "a", "n", "d">>

\* "ERR wrong number of arguments for 'hgetall' command"
ErrArgsHgetall ==
    <<"E", "R", "R", " ", "w", "r", "o", "n", "g", " ", "n", "u", "m", "b", "e",
      "r", " ", "o", "f", " ", "a", "r", "g", "u", "m", "e", "n", "t", "s", " ",
      "f", "o", "r", " ", "'", "h", "g", "e", "t", "a", "l", "l", "'", " ", "c",
      "o", "m", "m", "a", "n", "d">>

\* ------------------------------------------------------------------------
\* The tables and the handlers (handler.go)
\* ------------------------------------------------------------------------

\* The keys of the Handlers map
Handlers == {PING, SET, GET, HSET, HGET, HGETALL}

\* map[string]string{}
EmptyMap == [x \in {} |-> <<>>]

\* A store that keeps the value a key already has
MapStoreIfAbsent(m, key, value) ==
    [x \in DOMAIN m \cup {key} |-> IF x \in DOMAIN m THEN m[x] ELSE value]

\* m[key] = value
MapStore(m, key, value) ==
    [x \in DOMAIN m \cup {key} |-> IF x = key THEN value ELSE m[x]]

\* if _, ok := HSETs[hash]; !ok { HSETs[hash] = map[string]string{} }
\* HSETs[hash][key] = value
HashStore(H, hash, key, value) ==
    LET m == IF hash \in DOMAIN H THEN H[hash] ELSE EmptyMap
    IN  MapStore(H, hash, MapStore(m, key, value))

ping(args) ==
    IF Len(args) = 0 THEN SimpleString(PONG)
    ELSE SimpleString(args[1].bulk)

\* An argument check that lets extra arguments through
setAtLeastTwo(args, S) ==
    IF Len(args) < 2
    THEN [SETs |-> S, result |-> SimpleError(ErrArgsSet)]
    ELSE [SETs |-> MapStore(S, args[1].bulk, args[2].bulk), result |-> SimpleString(OK)]

set(args, S) ==
    IF Len(args) # 2
    THEN [SETs |-> S, result |-> SimpleError(ErrArgsSet)]
    ELSE [SETs |-> MapStore(S, args[1].bulk, args[2].bulk), result |-> SimpleString(OK)]

get(args, S) ==
    IF Len(args) # 1 THEN SimpleError(ErrArgsGet)
    ELSE IF args[1].bulk \notin DOMAIN S THEN Null
    ELSE BulkString(S[args[1].bulk])

hset(args, H) ==
    IF Len(args) # 3
    THEN [HSETs |-> H, result |-> SimpleError(ErrArgsHset)]
    ELSE [HSETs |-> HashStore(H, args[1].bulk, args[2].bulk, args[3].bulk),
          result |-> SimpleString(OK)]

hget(args, H) ==
    IF Len(args) # 2 THEN SimpleError(ErrArgsHget)
    ELSE IF args[1].bulk \notin DOMAIN H THEN Null
    ELSE IF args[2].bulk \notin DOMAIN H[args[1].bulk] THEN Null
    ELSE BulkString(H[args[1].bulk][args[2].bulk])

\* The orders in which "for k, v := range value" may visit the fields of m
RangeOrders(m) ==
    {o \in [1..Cardinality(DOMAIN m) -> DOMAIN m] :
        \A i, j \in 1..Cardinality(DOMAIN m) : i # j => o[i] # o[j]}

\* The values slice the range loop of hgetall builds, visiting m in order o
rangeValues(m, o) ==
    [i \in 1..(2 * Len(o)) |->
        IF i % 2 = 1 THEN BulkString(o[(i + 1) \div 2])
        ELSE BulkString(m[o[i \div 2]])]

\* hgetall up to the lookup under the read lock: the reply that is already
\* decided, and whether the range loop is still to run
hgetallLookup(args, H) ==
    IF Len(args) # 1 THEN [ok |-> FALSE, result |-> SimpleError(ErrArgsHgetall)]
    ELSE IF args[1].bulk \notin DOMAIN H THEN [ok |-> FALSE, result |-> Null]
    ELSE [ok |-> TRUE, result |-> ZeroValue]

\* The lock a handler takes for these arguments
Locking(command, args) ==
    IF command = SET /\ Len(args) = 2 THEN [mu |-> "SETsMu", mode |-> "Lock"]
    ELSE IF command = GET /\ Len(args) = 1 THEN [mu |-> "SETsMu", mode |-> "RLock"]
    ELSE IF command = HSET /\ Len(args) = 3 THEN [mu |-> "HSETsMu", mode |-> "Lock"]
    ELSE IF command = HGET /\ Len(args) = 2 THEN [mu |-> "HSETsMu", mode |-> "RLock"]
    ELSE IF command = HGETALL /\ Len(args) = 1 THEN [mu |-> "HSETsMu", mode |-> "RLock"]
    ELSE [mu |-> "none", mode |-> "none"]

\* The command and the arguments of a request: strings.ToUpper(value.array[0].bulk)
\* and value.array[1:]
Command(value) == ToUpper(value.array[1].bulk)
Args(value) == Tail(value.array)

\* ------------------------------------------------------------------------
\* The append-only file (handler.go) and its replay at startup (main.go)
\* ------------------------------------------------------------------------

\* The callback main passes to aof.Read, as the tables it leaves
ReplayApply(value, S, H) ==
    IF Command(value) = SET THEN [SETs |-> set(Args(value), S).SETs, HSETs |-> H]
    ELSE IF Command(value) = HSET THEN [SETs |-> S, HSETs |-> hset(Args(value), H).HSETs]
    ELSE [SETs |-> S, HSETs |-> H]

\* value.array[0] of a Value that is no Array, or an empty one: index out of range
ReplayPanics(value) == value.typ # ValueTypArray \/ Len(value.array) = 0

\* The loop of Aof.Read over the file content s
RECURSIVE AofReadFrom(_, _, _)
AofReadFrom(s, S, H) ==
    LET r == Read(s)
        t == ReplayApply(r.v, S, H)
    IN  IF r.err = "EOF" THEN [SETs |-> S, HSETs |-> H, err |-> "nil", rest |-> r.rest]
        ELSE IF r.err # "nil" THEN [SETs |-> S, HSETs |-> H, err |-> r.err, rest |-> r.rest]
        ELSE IF ReplayPanics(r.v)
             THEN [SETs |-> S, HSETs |-> H, err |-> "panic", rest |-> r.rest]
        ELSE AofReadFrom(r.rest, t.SETs, t.HSETs)

\* What bufio.Reader gets from the file: one read fills its buffer
RECURSIVE FileStream(_)
FileStream(file) ==
    IF Len(file) <= BufSize THEN file
    ELSE SubSeq(file, 1, BufSize) \o <<CHUNK>>
            \o FileStream(SubSeq(file, BufSize + 1, Len(file)))

\* The bytes of a stream
RECURSIVE StreamLen(_)
StreamLen(s) ==
    IF Len(s) = 0 THEN 0
    ELSE (IF Head(s) = CHUNK THEN 0 ELSE 1) + StreamLen(Tail(s))

\* The bytes of a stream that no read of the underlying reader has fetched
RECURSIVE Unfetched(_)
Unfetched(s) ==
    IF Len(s) = 0 THEN 0
    ELSE IF Head(s) = CHUNK THEN StreamLen(s)
    ELSE Unfetched(Tail(s))

\* Aof.Read with main's callback, from empty tables and offset zero
AofRead(file) == AofReadFrom(FileStream(file), EmptyMap, EmptyMap)

\* The file offset Aof.Read leaves: the end of what bufio.Reader fetched
AofReadOffset(file) == Len(file) - Unfetched(AofRead(file).rest)

\* file.Write(b) at the file offset off of a file opened without O_APPEND
WriteAt(file, off, b) ==
    SubSeq(file, 1, off) \o b \o SubSeq(file, off + Len(b) + 1, Len(file))

\* The requests Aof.Read hands to the callback, in file order
RECURSIVE AofFrames(_)
AofFrames(s) ==
    LET r == Read(s)
    IN  IF r.err # "nil" \/ ReplayPanics(r.v) THEN <<>>
        ELSE <<r.v>> \o AofFrames(r.rest)

\* ------------------------------------------------------------------------
\* What the clients send and what the log file holds at startup
\* ------------------------------------------------------------------------

\* A request as a client encodes it: an Array of BulkStrings
Request(words) == Marshal(Array([i \in 1..Len(words) |-> BulkString(words[i])]))

\* What the clients of a run send: each run draws its chunks from one menu.
MenuStrings ==
    { Request(<<SET, <<"k">>, <<"a">>>>),
      Request(<<<<"s", "e", "t">>, <<"k">>, <<"b">>>>),
      Request(<<GET, <<"k">>>>) }

MenuHashes ==
    { Request(<<HSET, <<"h">>, <<"f">>, <<"a">>>>),
      Request(<<<<"h", "S", "e", "t">>, <<"h">>, <<"g">>, <<"b">>>>),
      Request(<<HGET, <<"h">>, <<"f">>>>),
      Request(<<HGETALL, <<"h">>>>) }

\* Requests with too few or too many arguments, and one that stores
MenuArity ==
    { Request(<<SET, <<"k">>, <<"a">>>>),
      Request(<<SET, <<"k">>, <<"a">>, <<"b">>>>),
      Request(<<GET>>),
      Request(<<HSET, <<"h">>, <<"f">>>>),
      Request(<<HGET, <<"h">>>>),
      Request(<<HGETALL>>) }

MenuPing ==
    { Request(<<PING>>),
      Request(<<PING, <<"a">>>>),
      Request(<<PING, <<"a">>, <<"b">>>>),
      Request(<<SET, <<"k">>, <<"a">>>>) }

\* "$1\r\nk\r\n": a BulkString where a request is expected
BulkFrame == <<"$", "1", CR, LF, "k", CR, LF>>

\* "*0\r\n": the empty Array
EmptyArrayFrame == <<"*", "0", CR, LF>>

\* "+\r\n": a frame of a kind the decoder has no case for
SimpleFrame == <<"+", CR, LF>>

\* "*3\r\n$3\r\nSET\r\n$1\r\nk\r\n:": SET k with an Integer frame begun as value
SetWithInteger ==
    <<"*", "3", CR, LF, "$", "3", CR, LF, "S", "E", "T", CR, LF,
      "$", "1", CR, LF, "k", CR, LF, ":">>

\* "*x\r\n": an Array whose length is no number
BadLengthFrame == <<"*", "x", CR, LF>>

MenuInvalid ==
    { BulkFrame, EmptyArrayFrame, SimpleFrame,
      Request(<<<<"F", "O", "O">>>>),
      Request(<<SET, <<"k">>, <<"a">>>>) }

MenuDecode ==
    { SimpleFrame, SetWithInteger, BadLengthFrame,
      Request(<<GET, <<"k">>>>) }

\* One request of every kind main.go tells apart
MenuPolicy ==
    { Request(<<<<"s", "e", "t">>, <<"k">>, <<"b">>>>),
      Request(<<<<"h", "S", "e", "t">>, <<"h">>, <<"g">>, <<"b">>>>),
      Request(<<PING>>),
      Request(<<GET, <<"k">>>>),
      Request(<<HGET, <<"h">>, <<"g">>>>),
      Request(<<HGETALL, <<"h">>>>),
      Request(<<<<"F", "O", "O">>>>),
      BulkFrame, EmptyArrayFrame }

MenuWal ==
    { Request(<<SET, <<"k">>, <<"a">>>>),
      Request(<<HSET, <<"h">>, <<"f">>, <<"a">>>>),
      SetWithInteger }

\* Chunks that hold more than one request: the client writes them without
\* waiting for the replies
MenuPipeline ==
    { Request(<<SET, <<"k">>, <<"a">>>>) \o Request(<<GET, <<"k">>>>),
      Request(<<PING, <<"a">>>>) \o Request(<<PING, <<"b">>>>),
      BulkFrame \o Request(<<GET>>) }

\* Requests that take each of the three locks
MenuLive ==
    { Request(<<SET, <<"k">>, <<"a">>>>),
      Request(<<GET, <<"k">>>>),
      Request(<<HSET, <<"h">>, <<"f">>, <<"a">>>>),
      Request(<<HGETALL, <<"h">>>>) }

\* The file of a fresh installation
NoLog == <<>>

\* A file an earlier run left: SET k c
OldLog == Request(<<SET, <<"k">>, <<"c">>>>)

\* A file whose first record was cut short when an earlier run died in the
\* middle of a write, and to which a later run appended SET k c
TornLog == <<"*", "3", CR, LF, "$">> \o OldLog

\* A torn file that is longer than the buffer of the reader
LongLog == TornLog \o OldLog \o OldLog

\* ------------------------------------------------------------------------
\* State
\* ------------------------------------------------------------------------

Workers == 1..NumWorkers

VARIABLES
    menu,       \* the chunks the clients of this run choose from
    mainPc,     \* main: "replay", "accept", or "crashed" once the process died
    replayErr,  \* the error aof.Read returned to main ("none" before it ran)
    log,        \* the content of database.aof
    offset,     \* the file offset of aof.file
    dirty,      \* the file has writes that no file.Sync() has forced to disk
    aofMu,      \* Aof.mu: 0, or the worker that holds it
    SETs,       \* handler.go: SETs
    HSETs,      \* handler.go: HSETs
    SETsMu,     \* [writer: 0 or a worker, readers: set of workers]
    HSETsMu,
    pc,         \* per worker: "none", "read", "aof", "write", "handler",
                \* "locked", "return", "closed"
    conn,       \* per worker: the bytes of the connection not yet read
    eof,        \* per worker: the client closed the connection
    value,      \* per worker: the request resp.Read returned
    ok,         \* per worker: the ok of the handler's map lookup
    result,     \* per worker: the reply the handler built
    out,        \* per worker: the bytes written to the connection that the
                \* client has not read yet
    sent,       \* chunks and closes the clients have issued
    executed,   \* history: the SET/HSET requests whose handler stored, in order
    appended,   \* history: the requests Aof.Write wrote to the file, in order
    codec       \* a run of the codec alone: [pc, v, wire, got]

vars == <<menu, mainPc, replayErr, log, offset, dirty, aofMu, SETs, HSETs, SETsMu,
          HSETsMu, pc, conn, eof, value, ok, result, out, sent, executed, appended, codec>>

\* What resp.Read returned when it has not been called
NoResult == [v |-> ZeroValue, err |-> "none", rest |-> <<>>]

\* No run of the codec alone
NoCodec == [pc |-> "none", v |-> ZeroValue, wire |-> <<>>, got |-> NoResult]

FreeRW == [writer |-> 0, readers |-> {}]

\* The process as main finds it, for the clients and the files of a run
Setup(m, files) ==
    /\ menu = m
    /\ mainPc = "replay"
    /\ replayErr = "none"
    /\ log \in files
    /\ offset = 0
    /\ dirty = FALSE
    /\ codec = NoCodec
    /\ aofMu = 0
    /\ SETs = EmptyMap
    /\ HSETs = EmptyMap
    /\ SETsMu = FreeRW
    /\ HSETsMu = FreeRW
    /\ pc = [w \in Workers |-> "none"]
    /\ conn = [w \in Workers |-> <<>>]
    /\ eof = [w \in Workers |-> FALSE]
    /\ value = [w \in Workers |-> ZeroValue]
    /\ ok = [w \in Workers |-> FALSE]
    /\ result = [w \in Workers |-> ZeroValue]
    /\ out = [w \in Workers |-> <<>>]
    /\ sent = 0
    /\ executed = <<>>
    /\ appended = <<>>

Init == Setup(MenuStrings, {NoLog, OldLog})

\* A SET or HSET request whose handler passes its argument check and stores
Stores(v) ==
    \/ Command(v) = SET /\ Len(Args(v)) = 2
    \/ Command(v) = HSET /\ Len(Args(v)) = 3

\* ------------------------------------------------------------------------
\* main (main.go)
\* ------------------------------------------------------------------------

\* main.go:28 aof.Read(...): the replay; its error is not looked at
Replay ==
    /\ mainPc = "replay"
    /\ aofMu = 0
    /\ \E r \in {AofRead(log)} :
          /\ replayErr' = r.err
          /\ SETs' = r.SETs
          /\ HSETs' = r.HSETs
          /\ mainPc' = IF r.err = "panic" THEN "crashed" ELSE "accept"
    /\ offset' = AofReadOffset(log)
    /\ executed' = SelectSeq(AofFrames(FileStream(log)), Stores)
    /\ UNCHANGED <<menu, codec, dirty,
                   appended, log, aofMu, SETsMu, HSETsMu, pc, conn, eof, value, ok, result,
                   out, sent>>

\* main.go:43-50 l.Accept() and go handleConnection(conn, aof)
Accept(w) ==
    /\ mainPc = "accept"
    /\ pc[w] = "none"
    /\ \A u \in Workers : u < w => pc[u] # "none"
    /\ pc' = [pc EXCEPT ![w] = "read"]
    /\ UNCHANGED <<menu, codec, offset, dirty,
                   appended, mainPc, replayErr, log, aofMu, SETs, HSETs, SETsMu, HSETsMu,
                   conn, eof, value, ok, result, out, sent, executed>>

\* ------------------------------------------------------------------------
\* The clients
\* ------------------------------------------------------------------------

\* The worker waits in resp.Read for bytes the client has not sent
Waiting(w) == pc[w] = "read" /\ ~eof[w] /\ Read(conn[w]).err = "EOF"

\* A client that has read the replies to what it sent writes its next chunk
ClientSend(w, chunk) ==
    /\ mainPc = "accept"
    /\ sent < MaxRequests
    /\ conn[w] = <<>>
    /\ Waiting(w)
    /\ conn' = [conn EXCEPT ![w] = chunk]
    /\ out' = [out EXCEPT ![w] = <<>>]
    /\ sent' = sent + 1
    /\ UNCHANGED <<menu, codec, offset, dirty,
                   appended, mainPc, replayErr, log, aofMu, SETs, HSETs, SETsMu, HSETsMu,
                   pc, eof, value, ok, result, executed>>

ClientClose(w) ==
    /\ mainPc = "accept"
    /\ sent < MaxRequests
    /\ Waiting(w)
    /\ eof' = [eof EXCEPT ![w] = TRUE]
    /\ out' = [out EXCEPT ![w] = <<>>]
    /\ sent' = sent + 1
    /\ UNCHANGED <<menu, codec, offset, dirty,
                   appended, mainPc, replayErr, log, aofMu, SETs, HSETs, SETsMu, HSETsMu,
                   pc, conn, value, ok, result, executed>>

\* ------------------------------------------------------------------------
\* handleConnection (main.go)
\* ------------------------------------------------------------------------

\* main.go:69-93: the reply to a request that is refused before dispatch,
\* or the zero Value when a handler is found
Validate(v) ==
    IF v.typ # ValueTypArray THEN SimpleError(ErrExpectedArray)
    ELSE IF Len(v.array) = 0 THEN SimpleError(ErrExpectedLength)
    ELSE IF Command(v) \notin Handlers THEN SimpleError(ErrUnknownCommand)
    ELSE ZeroValue

\* main.go:96: the commands that are written to the AOF
Persisted(command) == command = SET \/ command = HSET

\* A loop that returns where main.go says continue
AfterReadReturning(v, err) ==
    IF err # "nil" THEN "closed"
    ELSE IF Validate(v) # ZeroValue THEN "closed"
    ELSE IF Persisted(Command(v)) THEN "aof"
    ELSE "handler"

\* Where the worker goes after resp.Read returned (v, err)
AfterRead(v, err) ==
    IF err # "nil" THEN "closed"
    ELSE IF Validate(v) # ZeroValue THEN "read"
    ELSE IF Persisted(Command(v)) THEN "aof"
    ELSE "handler"

\* A writer that writes every reply twice
WriterWriteTwice(w, v) == [out EXCEPT ![w] = @ \o Marshal(v) \o Marshal(v)]

\* writer.Write(v) on the connection of worker w
WriterWrite(w, v) == [out EXCEPT ![w] = @ \o Marshal(v)]

\* main.go:63-102: one resp.Read and what follows it up to the AOF write.
\* value, ok and result are variables of one loop iteration.
ReadRequest(w) ==
    /\ mainPc = "accept"
    /\ pc[w] = "read"
    /\ \E r \in {Read(conn[w])} :
          \E next \in {AfterRead(r.v, r.err)} :
             /\ r.err = "EOF" => eof[w]
             /\ conn' = [conn EXCEPT ![w] = r.rest]
             /\ mainPc' = IF r.err = "panic" THEN "crashed" ELSE mainPc
             /\ pc' = [pc EXCEPT ![w] = next]
             /\ value' = [value EXCEPT ![w] = IF next \in {"aof", "handler"} THEN r.v ELSE ZeroValue]
             /\ out' = IF next = "read" THEN WriterWrite(w, Validate(r.v)) ELSE out
    /\ UNCHANGED <<menu, codec, offset, dirty,
                   appended, replayErr, log, aofMu, SETs, HSETs, SETsMu, HSETsMu, eof, ok,
                   result, sent, executed>>

\* handler.go:203 aof.mu.Lock() in Aof.Write
AofLock(w) ==
    /\ mainPc = "accept"
    /\ pc[w] = "aof"
    /\ aofMu = 0
    /\ aofMu' = w
    /\ pc' = [pc EXCEPT ![w] = "write"]
    /\ UNCHANGED <<menu, codec, offset, dirty,
                   appended, mainPc, replayErr, log, SETs, HSETs, SETsMu, HSETsMu, conn, eof,
                   value, ok, result, out, sent, executed>>

\* A loop that goes on to the handler when Aof.Write returned an error
AofWriteIgnoringError(w) ==
    /\ mainPc = "accept"
    /\ pc[w] = "write"
    /\ aofMu' = 0
    /\ \E written \in BOOLEAN :
          IF written
          THEN /\ log' = WriteAt(log, offset, Marshal(value[w]))
               /\ offset' = offset + Len(Marshal(value[w]))
               /\ dirty' = TRUE
               /\ appended' = Append(appended, value[w])
          ELSE UNCHANGED <<log, offset, dirty, appended>>
    /\ pc' = [pc EXCEPT ![w] = "handler"]
    /\ UNCHANGED <<menu, codec, value, out,
                   mainPc, replayErr, SETs, HSETs, SETsMu, HSETsMu, conn, eof,
                   ok, result, sent, executed>>

\* handler.go:206-211 and main.go:97-101: the file write succeeds or fails
AofWrite(w) ==
    /\ mainPc = "accept"
    /\ pc[w] = "write"
    /\ aofMu' = 0
    /\ \E written \in BOOLEAN :
          IF written
          THEN /\ log' = WriteAt(log, offset, Marshal(value[w]))
               /\ offset' = offset + Len(Marshal(value[w]))
               /\ dirty' = TRUE
               /\ appended' = Append(appended, value[w])
               /\ pc' = [pc EXCEPT ![w] = "handler"]
               /\ UNCHANGED <<value, out>>
          ELSE /\ out' = WriterWrite(w, SimpleError(ErrPersist))
               /\ pc' = [pc EXCEPT ![w] = "read"]
               /\ value' = [value EXCEPT ![w] = ZeroValue]
               /\ UNCHANGED <<log, offset, dirty, appended>>
    /\ UNCHANGED <<menu, codec,
                   mainPc, replayErr, SETs, HSETs, SETsMu, HSETsMu, conn, eof,
                   ok, result, sent, executed>>

\* A lock after worker w took it in the given mode
Acquire(mu, w, mode) ==
    IF mode = "Lock" THEN [mu EXCEPT !.writer = w]
    ELSE [mu EXCEPT !.readers = @ \cup {w}]

Release(mu, w) == [writer |-> IF mu.writer = w THEN 0 ELSE mu.writer,
                   readers |-> mu.readers \ {w}]

Available(mu, mode) ==
    IF mode = "Lock" THEN mu.writer = 0 /\ mu.readers = {}
    ELSE mu.writer = 0

\* main.go:105 handler(args), up to the handler's Lock()/RLock(): the
\* argument check, and ping, which takes no lock
HandlerEnter(w) ==
    /\ mainPc = "accept"
    /\ pc[w] = "handler"
    /\ LET command == Command(value[w])
           args == Args(value[w])
           l == Locking(command, args)
       IN  /\ l.mu = "SETsMu" => Available(SETsMu, l.mode)
           /\ l.mu = "HSETsMu" => Available(HSETsMu, l.mode)
           /\ SETsMu' = IF l.mu = "SETsMu" THEN Acquire(SETsMu, w, l.mode) ELSE SETsMu
           /\ HSETsMu' = IF l.mu = "HSETsMu" THEN Acquire(HSETsMu, w, l.mode) ELSE HSETsMu
           /\ pc' = [pc EXCEPT ![w] = IF l.mu = "none" THEN "return" ELSE "locked"]
           /\ result' = [result EXCEPT ![w] =
                            IF l.mu # "none" THEN ZeroValue
                            ELSE IF command = PING THEN ping(args)
                            ELSE IF command = SET THEN set(args, SETs).result
                            ELSE IF command = GET THEN get(args, SETs)
                            ELSE IF command = HSET THEN hset(args, HSETs).result
                            ELSE IF command = HGET THEN hget(args, HSETs)
                            ELSE hgetallLookup(args, HSETs).result]
    /\ UNCHANGED <<menu, codec, offset, dirty,
                   appended, mainPc, replayErr, log, aofMu, SETs, HSETs, conn, eof, value,
                   ok, out, sent, executed>>

\* The handler between its Lock()/RLock() and its Unlock()/RUnlock()
HandlerBody(w) ==
    /\ mainPc = "accept"
    /\ pc[w] = "locked"
    /\ LET command == Command(value[w])
           args == Args(value[w])
       IN  /\ SETs' = IF command = SET THEN set(args, SETs).SETs ELSE SETs
           /\ HSETs' = IF command = HSET THEN hset(args, HSETs).HSETs ELSE HSETs
           /\ result' = [result EXCEPT ![w] =
                            IF command = SET THEN set(args, SETs).result
                            ELSE IF command = GET THEN get(args, SETs)
                            ELSE IF command = HSET THEN hset(args, HSETs).result
                            ELSE IF command = HGET THEN hget(args, HSETs)
                            ELSE hgetallLookup(args, HSETs).result]
           /\ ok' = [ok EXCEPT ![w] = command = HGETALL /\ hgetallLookup(args, HSETs).ok]
           /\ executed' = IF Stores(value[w]) THEN Append(executed, value[w]) ELSE executed
    /\ SETsMu' = Release(SETsMu, w)
    /\ HSETsMu' = Release(HSETsMu, w)
    /\ pc' = [pc EXCEPT ![w] = "return"]
    /\ UNCHANGED <<menu, codec, offset, dirty,
                   appended, mainPc, replayErr, log, aofMu, conn, eof, value, out, sent>>

\* The workers inside hset's critical section on this hash
HashWriters(w, hash) ==
    {u \in Workers \ {w} : /\ pc[u] = "locked"
                           /\ Command(value[u]) = HSET
                           /\ Args(value[u])[1].bulk = hash}

\* What hset of worker u may have done to the map m while a range loop over
\* m runs unsynchronised: nothing yet, the whole store, or the new field
\* inserted with its value not yet stored
RacingViews(m, u) ==
    LET a == Args(value[u])
    IN  {m, MapStore(m, a[2].bulk, a[3].bulk)}
        \cup (IF a[2].bulk \in DOMAIN m THEN {} ELSE {MapStore(m, a[2].bulk, <<>>)})

\* What the range loop of hgetall, which runs after RUnlock(), may find in
\* HSETs[hash]: the map, or what a data race with a writer shows of it
RangeViews(w, hash) ==
    {HSETs[hash]} \cup UNION {RacingViews(HSETs[hash], u) : u \in HashWriters(w, hash)}

\* The rest of the handler after the unlock (hgetall's range loop), and
\* main.go:106 writer.Write(result).  The Go run time may end the process
\* with "concurrent map iteration and map write" when the loop races.
HandlerReturn(w) ==
    /\ mainPc = "accept"
    /\ pc[w] = "return"
    /\ \E fatal \in {FALSE} \cup {ok[w] /\ HashWriters(w, Args(value[w])[1].bulk) # {}} :
          IF fatal
          THEN /\ mainPc' = "crashed"
               /\ UNCHANGED <<pc, value, ok, result, out>>
          ELSE /\ \E m \in (IF ok[w] THEN RangeViews(w, Args(value[w])[1].bulk) ELSE {EmptyMap}) :
                  \E o \in RangeOrders(m) :
                     out' = WriterWrite(w, IF ok[w] THEN Array(rangeValues(m, o)) ELSE result[w])
               /\ pc' = [pc EXCEPT ![w] = "read"]
               /\ value' = [value EXCEPT ![w] = ZeroValue]
               /\ ok' = [ok EXCEPT ![w] = FALSE]
               /\ result' = [result EXCEPT ![w] = ZeroValue]
               /\ UNCHANGED mainPc
    /\ UNCHANGED <<menu, codec, offset, dirty,
                   appended, replayErr, log, aofMu, SETs, HSETs, SETsMu, HSETsMu, conn, eof,
                   sent, executed>>

\* ------------------------------------------------------------------------
\* Aof.periodicSync (handler.go), the goroutine NewAof starts
\* ------------------------------------------------------------------------

\* A Sync that forces nothing to disk
SyncNot(d) == d

\* What file.Sync() leaves of the writes not yet forced to disk
Sync(d) == FALSE

\* handler.go:185-189: one round of the loop after its sleep: aof.mu.Lock(),
\* aof.file.Sync(), aof.mu.Unlock().  The round touches nothing but the
\* file that the lock protects, so it is taken as one step.
PeriodicSync ==
    /\ mainPc # "crashed"
    /\ aofMu = 0
    /\ dirty' = Sync(dirty)
    /\ UNCHANGED <<menu, codec, mainPc, replayErr, log, offset, aofMu, SETs, HSETs, SETsMu,
                   HSETsMu, pc, conn, eof, value, ok, result, out, sent, executed, appended>>

Next ==
    \/ Replay
    \/ PeriodicSync
    \/ \E w \in Workers : Accept(w)
    \/ \E w \in Workers : \E chunk \in menu : ClientSend(w, chunk)
    \/ \E w \in Workers : ClientClose(w)
    \/ \E w \in Workers : ReadRequest(w)
    \/ \E w \in Workers : AofLock(w)
    \/ \E w \in Workers : AofWrite(w)
    \/ \E w \in Workers : HandlerEnter(w)
    \/ \E w \in Workers : HandlerBody(w)
    \/ \E w \in Workers : HandlerReturn(w)

Spec == Init /\ [][Next]_vars

InitHashes == Setup(MenuHashes, {NoLog})
SpecHashes == InitHashes /\ [][Next]_vars

InitArity == Setup(MenuArity, {NoLog})
SpecArity == InitArity /\ [][Next]_vars

InitPing == Setup(MenuPing, {NoLog})
SpecPing == InitPing /\ [][Next]_vars

InitInvalid == Setup(MenuInvalid, {NoLog})
SpecInvalid == InitInvalid /\ [][Next]_vars

InitDecode == Setup(MenuDecode, {NoLog})
SpecDecode == InitDecode /\ [][Next]_vars

InitPolicy == Setup(MenuPolicy, {NoLog, OldLog})
SpecPolicy == InitPolicy /\ [][Next]_vars

InitWal == Setup(MenuWal, {NoLog, OldLog})
SpecWal == InitWal /\ [][Next]_vars

InitRestart == Setup(MenuStrings, {OldLog, TornLog})
SpecRestart == InitRestart /\ [][Next]_vars

InitPipeline == Setup(MenuPipeline, {NoLog})
SpecPipeline == InitPipeline /\ [][Next]_vars

InitLongLog == Setup(MenuStrings, {OldLog, LongLog})
SpecLongLog == InitLongLog /\ [][Next]_vars

\* The Go scheduler runs every goroutine that can run, and a goroutine that
\* waits in Lock() or RLock() gets the lock once it is free: sync.Mutex
\* hands the lock to a waiter that has waited for more than a millisecond,
\* and sync.RWMutex keeps new readers out while a writer waits.  Nothing is
\* asked of the clients, nor of a worker that waits for its client.
Fairness ==
    /\ WF_vars(PeriodicSync)
    /\ \A w \in Workers :
          /\ WF_vars(AofLock(w))
          /\ WF_vars(AofWrite(w))
          /\ WF_vars(HandlerEnter(w))
          /\ WF_vars(HandlerBody(w))
          /\ WF_vars(HandlerReturn(w))

InitLive == Setup(MenuLive, {NoLog})
SpecLive == InitLive /\ [][Next]_vars /\ Fairness


\* ------------------------------------------------------------------------
\* The codec alone (resp.go): a Value is encoded, the bytes arrive in one or
\* two reads, and resp.Read decodes them
\* ------------------------------------------------------------------------

\* Values of every kind Value.Marshal has a case for
CodecScalars ==
    { SimpleString(OK), SimpleError(<<"E">>), Null,
      BulkString(<<>>), BulkString(<<"a">>), BulkString(<<"a", "b", "c">>),
      BulkString(<<"a", CR, LF, "b">>) }

CodecValues ==
    CodecScalars
        \cup {Array(<<>>)}
        \cup {Array(<<x>>) : x \in CodecScalars}
        \cup {Array(<<BulkString(<<"a">>), x>>) : x \in CodecScalars}
        \cup {Array(<<Array(<<BulkString(<<"a", "b">>)>>), BulkString(<<"c">>)>>)}

\* "*-1\r\n": an Array with a negative length
NegativeLengthFrame == <<"*", "-", "1", CR, LF>>

\* "*\r\n": an Array with an empty length line
NoLengthFrame == <<"*", CR, LF>>

\* "*1x\r\n$1\r\na\r\n": an Array whose length line has a letter after a digit
MixedLengthFrame == <<"*", "1", "x", CR, LF, "$", "1", CR, LF, "a", CR, LF>>

\* Byte strings that no Value encodes to
RawStreams == {BadLengthFrame, NegativeLengthFrame, NoLengthFrame, MixedLengthFrame}

\* The variables of the server
server == <<menu, mainPc, replayErr, log, offset, dirty, aofMu, SETs, HSETs, SETsMu,
            HSETsMu, pc, conn, eof, value, ok, result, out, sent, executed, appended>>

InitCodec ==
    /\ codec \in {[pc |-> "encode", v |-> x, wire |-> <<>>, got |-> NoResult] :
                        x \in CodecValues}
                 \cup {[pc |-> "split", v |-> ZeroValue, wire |-> b, got |-> NoResult] :
                        b \in RawStreams}
    /\ menu = {}
    /\ mainPc = "replay"
    /\ replayErr = "none"
    /\ log = NoLog
    /\ offset = 0
    /\ dirty = FALSE
    /\ aofMu = 0
    /\ SETs = EmptyMap
    /\ HSETs = EmptyMap
    /\ SETsMu = FreeRW
    /\ HSETsMu = FreeRW
    /\ pc = [w \in Workers |-> "none"]
    /\ conn = [w \in Workers |-> <<>>]
    /\ eof = [w \in Workers |-> FALSE]
    /\ value = [w \in Workers |-> ZeroValue]
    /\ ok = [w \in Workers |-> FALSE]
    /\ result = [w \in Workers |-> ZeroValue]
    /\ out = [w \in Workers |-> <<>>]
    /\ sent = 0
    /\ executed = <<>>
    /\ appended = <<>>

\* resp.go:154-169 v.Marshal()
Encode ==
    /\ codec.pc = "encode"
    /\ codec' = [codec EXCEPT !.pc = "split", !.wire = Marshal(codec.v)]
    /\ UNCHANGED server

\* The bytes reach the reader in one read (i = 0), or the first i of them
\* in one read and the others in the next
Split(i) ==
    /\ codec.pc = "split"
    /\ codec' = [codec EXCEPT !.pc = "decode",
                              !.wire = IF i = 0 THEN @
                                       ELSE SubSeq(@, 1, i) \o <<CHUNK>>
                                               \o SubSeq(@, i + 1, Len(@))]
    /\ UNCHANGED server

\* resp.go:91-106 resp.Read()
Decode ==
    /\ codec.pc = "decode"
    /\ codec' = [codec EXCEPT !.pc = "done", !.got = Read(codec.wire)]
    /\ UNCHANGED server

NextCodec ==
    \/ Encode
    \/ \E i \in 0..(Len(codec.wire) - 1) : Split(i)
    \/ Decode

SpecCodec == InitCodec /\ [][NextCodec]_vars

\* ------------------------------------------------------------------------
\* Vocabulary of the properties
\* ------------------------------------------------------------------------

\* name is word in some mix of upper and lower case
FoldsTo(name, word) ==
    /\ Len(name) = Len(word)
    /\ \A i \in 1..Len(name) :
          \/ name[i] = word[i]
          \/ \E j \in 1..26 : LowerCase[j] = name[i] /\ UpperCase[j] = word[i]

\* v is a request for the command word with n arguments
IsRequest(v, word, n) ==
    /\ v.typ = ValueTypArray
    /\ Len(v.array) = n + 1
    /\ FoldsTo(v.array[1].bulk, word)

\* Worker w takes the step of its handler that runs under the table lock
UnderLock(w) == pc[w] = "locked" /\ pc'[w] = "return"

\* Worker w takes the step that writes the handler's reply
Replies(w) == pc[w] = "return" /\ pc'[w] = "read"

\* Worker w takes the step that calls its handler
Enters(w) == pc[w] = "handler" /\ pc'[w] # "handler"

\* Every worker is between two requests
Idle == mainPc = "accept" /\ \A w \in Workers : pc[w] \in {"none", "read", "closed"}

\* The reply to GET key that a history of executed stores calls for
RECURSIVE LastSet(_, _)
LastSet(hist, key) ==
    IF Len(hist) = 0 THEN Null
    ELSE IF IsRequest(hist[Len(hist)], SET, 2) /\ hist[Len(hist)].array[2].bulk = key
         THEN BulkString(hist[Len(hist)].array[3].bulk)
         ELSE LastSet(SubSeq(hist, 1, Len(hist) - 1), key)

\* The reply to HGET hash field that a history of executed stores calls for
RECURSIVE LastHSet(_, _, _)
LastHSet(hist, hash, field) ==
    IF Len(hist) = 0 THEN Null
    ELSE IF /\ IsRequest(hist[Len(hist)], HSET, 3)
            /\ hist[Len(hist)].array[2].bulk = hash
            /\ hist[Len(hist)].array[3].bulk = field
         THEN BulkString(hist[Len(hist)].array[4].bulk)
         ELSE LastHSet(SubSeq(hist, 1, Len(hist) - 1), hash, field)

\* The fields a history of executed stores gave the hash
FieldsOf(hist, hash) ==
    {hist[i].array[3].bulk :
        i \in {j \in 1..Len(hist) : IsRequest(hist[j], HSET, 3) /\ hist[j].array[2].bulk = hash}}

\* ------------------------------------------------------------------------
\* C1: a GET of a key replies the BulkString of the value of the last SET
\* (with two arguments) executed or replayed on that key, and Null when no
\* SET on the key was ever executed or replayed; the reply written to the
\* connection is that reply.
\* ------------------------------------------------------------------------
C1_GetRepliesLastSet ==
    [][\A w \in Workers :
          /\ (UnderLock(w) /\ IsRequest(value[w], GET, 1))
                => result'[w] = LastSet(executed, value[w].array[2].bulk)
          /\ (Replies(w) /\ IsRequest(value[w], GET, 1))
                => out'[w] = out[w] \o Marshal(result[w])]_vars

\* A GET is answered with the value of the second of two executed SETs that
\* put different values on its key
C1_Witness ==
    \E w \in Workers :
        /\ pc[w] = "return"
        /\ IsRequest(value[w], GET, 1)
        /\ result[w] = BulkString(<<"b">>)
        /\ \E i, j \in 1..Len(executed) :
              /\ i < j
              /\ IsRequest(executed[i], SET, 2) /\ IsRequest(executed[j], SET, 2)
              /\ executed[i].array[2].bulk = value[w].array[2].bulk
              /\ executed[j].array[2].bulk = value[w].array[2].bulk
              /\ executed[i].array[3].bulk # <<"b">>
              /\ executed[j].array[3].bulk = <<"b">>

\* ------------------------------------------------------------------------
\* C2: HGET hash field replies the BulkString of the value of the last HSET
\* executed on (hash, field) and Null when there is none; HGETALL hash
\* replies Null when no HSET on the hash has executed, and otherwise an
\* Array of BulkStrings whose (field, value) pairs are exactly the fields the
\* executed HSETs gave the hash, each once, with their last values.
\* ------------------------------------------------------------------------
C2_HashReplies ==
    [][\A w \in Workers :
          /\ (UnderLock(w) /\ IsRequest(value[w], HGET, 2))
                => result'[w] = LastHSet(executed, value[w].array[2].bulk,
                                         value[w].array[3].bulk)
          /\ (Replies(w) /\ IsRequest(value[w], HGET, 2))
                => out'[w] = out[w] \o Marshal(result[w])
          /\ (UnderLock(w) /\ IsRequest(value[w], HGETALL, 1))
                => (ok'[w] <=> FieldsOf(executed, value[w].array[2].bulk) # {})
          /\ (Replies(w) /\ IsRequest(value[w], HGETALL, 1) /\ ~ok[w])
                => out'[w] = out[w] \o Marshal(Null)
          /\ (Replies(w) /\ IsRequest(value[w], HGETALL, 1) /\ ok[w])
                => \E o \in RangeOrders(HSETs[value[w].array[2].bulk]) :
                      /\ {o[i] : i \in 1..Len(o)} = FieldsOf(executed, value[w].array[2].bulk)
                      /\ out'[w] = out[w] \o Marshal(Array(
                            [i \in 1..(2 * Len(o)) |->
                                IF i % 2 = 1 THEN BulkString(o[(i + 1) \div 2])
                                ELSE LastHSet(executed, value[w].array[2].bulk,
                                              o[i \div 2])]))]_vars

\* ------------------------------------------------------------------------
\* C3: whenever every worker is idle, replaying the log from offset zero
\* into empty tables yields the live StringTable and HashTable.
\* ------------------------------------------------------------------------
C3_ReplayEqualsLive ==
    Idle => (AofRead(log).SETs = SETs /\ AofRead(log).HSETs = HSETs)

\* ------------------------------------------------------------------------
\* C4: write-ahead ordering: every (key, value) entry of the StringTable and
\* every (hash, field, value) entry of the HashTable is the argument list of
\* a SET/HSET record that the log already holds, a record being a frame that
\* decoding the log from its start yields.
\* ------------------------------------------------------------------------

\* The records of the log
LogRecords == {AofFrames(log)[i] : i \in 1..Len(AofFrames(log))}

C4_WriteAhead ==
    /\ \A k \in DOMAIN SETs :
          \E r \in LogRecords :
              /\ IsRequest(r, SET, 2)
              /\ r.array[2].bulk = k /\ r.array[3].bulk = SETs[k]
    /\ \A h \in DOMAIN HSETs :
          \A f \in DOMAIN HSETs[h] :
              \E r \in LogRecords :
                  /\ IsRequest(r, HSET, 3)
                  /\ r.array[2].bulk = h /\ r.array[3].bulk = f
                  /\ r.array[4].bulk = HSETs[h][f]

\* ------------------------------------------------------------------------
\* C5: write policy: the log decodes, frame after frame up to its end, into
\* Array frames whose first element is SET or HSET in some mix of case; the
\* log changes only by a worker appending the encoding of such a request;
\* and a decoded request goes to the append exactly when its name is SET or
\* HSET in some mix of case ('set' and 'hSet' like 'SET' and 'HSET').
\* ------------------------------------------------------------------------

NamesStore(v) ==
    /\ v.typ = ValueTypArray
    /\ Len(v.array) >= 1
    /\ (FoldsTo(v.array[1].bulk, SET) \/ FoldsTo(v.array[1].bulk, HSET))

RECURSIVE OnlyStores(_)
OnlyStores(s) ==
    \/ Read(s).err = "EOF"
    \/ /\ Read(s).err = "nil"
       /\ NamesStore(Read(s).v)
       /\ OnlyStores(Read(s).rest)

\* Worker w takes the step that decodes a request from its connection
Decodes(w) == pc[w] = "read" /\ Len(conn'[w]) < Len(conn[w])

C5_WritePolicy ==
    /\ [](OnlyStores(log))
    /\ [][/\ log' # log =>
                \E w \in Workers :
                    /\ pc[w] = "write"
                    /\ NamesStore(value[w])
                    /\ log' = log \o Marshal(value[w])
          /\ \A w \in Workers :
                (Decodes(w) /\ Read(conn[w]).err = "nil")
                    => (pc'[w] = "aof" <=> NamesStore(Read(conn[w]).v))]_vars

\* The log holds the records of a 'set' and of an 'hSet' request, and a
\* worker is answering a GET
C5_Witness ==
    /\ \E i \in 1..Len(appended) : appended[i].array[1].bulk = <<"s", "e", "t">>
    /\ \E i \in 1..Len(appended) : appended[i].array[1].bulk = <<"h", "S", "e", "t">>
    /\ \E w \in Workers : pc[w] = "return" /\ IsRequest(value[w], GET, 1)

\* ------------------------------------------------------------------------
\* C6: SET, GET, HSET, HGET and HGETALL with an argument count other than
\* 2, 1, 3, 2 and 1 are answered with the SimpleError "ERR wrong number of
\* arguments for '<name>' command", the name in lower case, and the handler
\* leaves the StringTable and the HashTable as they are.
\* ------------------------------------------------------------------------

ToLower(s) ==
    [i \in 1..Len(s) |->
        IF \E j \in 1..26 : UpperCase[j] = s[i]
        THEN LowerCase[CHOOSE j \in 1..26 : UpperCase[j] = s[i]]
        ELSE s[i]]

ArityError(word) == SimpleError(ErrArgsPrefix \o ToLower(word) \o ErrArgsSuffix)

Arities == {<<SET, 2>>, <<GET, 1>>, <<HSET, 3>>, <<HGET, 2>>, <<HGETALL, 1>>}

\* The commands that the request v names with a wrong number of arguments
WrongArity(v) ==
    IF Len(v.array) = 0 THEN {}
    ELSE {a \in Arities : FoldsTo(v.array[1].bulk, a[1]) /\ Len(v.array) - 1 # a[2]}

C6_ArityErrors ==
    [][\A w \in Workers :
          \A a \in WrongArity(value[w]) :
              /\ Enters(w) =>
                    /\ pc'[w] = "return"
                    /\ result'[w] = ArityError(a[1])
                    /\ SETs' = SETs /\ HSETs' = HSETs
              /\ Replies(w) =>
                    /\ out'[w] = out[w] \o Marshal(ArityError(a[1]))
                    /\ SETs' = SETs /\ HSETs' = HSETs]_vars

\* A SET with three arguments is being answered with the arity error while
\* the key it names is not in the StringTable
C6_Witness ==
    \E w \in Workers :
        /\ pc[w] = "return"
        /\ IsRequest(value[w], SET, 3)
        /\ result[w] = SimpleError(ErrArgsSet)
        /\ SETs = EmptyMap

\* ------------------------------------------------------------------------
\* C7: PING with no argument replies SimpleString "PONG", with one argument
\* a SimpleString of that argument's bulk payload, and with two or more
\* arguments the arity SimpleError for 'ping'.
\* ------------------------------------------------------------------------
C7_PingReplies ==
    [][\A w \in Workers :
          (Enters(w) /\ FoldsTo(value[w].array[1].bulk, PING))
              => result'[w] =
                    IF Len(value[w].array) = 1 THEN SimpleString(PONG)
                    ELSE IF Len(value[w].array) = 2
                         THEN SimpleString(value[w].array[2].bulk)
                         ELSE ArityError(PING)]_vars

\* ------------------------------------------------------------------------
\* C8: a decoded request that is no Array, is an empty Array or names no
\* registered command is answered with one SimpleError ("ERR unknown
\* command" for the unregistered name, a message that starts "ERR invalid
\* request" for the other two), leaves the tables and the log as they are,
\* and leaves the worker reading the next request of its connection.
\* ------------------------------------------------------------------------

Registered(name) == \E word \in {PING, SET, GET, HSET, HGET, HGETALL} : FoldsTo(name, word)

Invalid(v) ==
    \/ v.typ # ValueTypArray
    \/ Len(v.array) = 0
    \/ ~Registered(v.array[1].bulk)

\* The bytes are one SimpleError frame
OneSimpleError(b) ==
    /\ Len(b) >= 3
    /\ b[1] = FB_SIMPLE_ERROR
    /\ b[Len(b) - 1] = CR /\ b[Len(b)] = LF
    /\ \A i \in 2..(Len(b) - 2) : b[i] \notin {CR, LF}

\* What the step writes to the connection of worker w
Written(w) == SubSeq(out'[w], Len(out[w]) + 1, Len(out'[w]))

C8_InvalidRequests ==
    [][\A w \in Workers :
          (Decodes(w) /\ Read(conn[w]).err = "nil" /\ Invalid(Read(conn[w]).v))
              => /\ out'[w] = out[w] \o Written(w)
                 /\ OneSimpleError(Written(w))
                 /\ (/\ Read(conn[w]).v.typ = ValueTypArray
                     /\ Len(Read(conn[w]).v.array) > 0)
                        => Written(w) = Marshal(SimpleError(ErrUnknownCommand))
                 /\ SETs' = SETs /\ HSETs' = HSETs /\ log' = log
                 /\ pc'[w] = "read"
                 /\ mainPc' = "accept"]_vars

\* A worker has answered an unknown command and waits for the next request,
\* and a worker has answered three requests that are no Arrays one by one
C8_Witness ==
    \E w, u \in Workers :
        /\ pc[w] = "read" /\ pc[u] = "read"
        /\ out[w] = Marshal(SimpleError(ErrUnknownCommand))
        /\ out[u] = Marshal(SimpleError(ErrExpectedArray))
                       \o Marshal(SimpleError(ErrExpectedArray))
                       \o Marshal(SimpleError(ErrExpectedArray))
        /\ SETs = EmptyMap /\ HSETs = EmptyMap /\ log = <<>>

\* ------------------------------------------------------------------------
\* C9: when the replay of the log stops on a decode failure that is not the
\* end of the log, startup is aborted: no connection is ever accepted.
\* ------------------------------------------------------------------------
C9_FailedReplayAborts ==
    replayErr \notin {"none", "nil"} => \A w \in Workers : pc[w] = "none"

\* ------------------------------------------------------------------------
\* C10: decoding a frame whose tag byte is neither '*' nor '$' is a decode
\* failure: at the head of a request it ends the worker's loop, and inside
\* an Array it fails the decode of the Array, so that no request with an
\* element of no kind reaches a handler.
\* ------------------------------------------------------------------------
C10_UnknownTagFails ==
    [][\A w \in Workers :
          Decodes(w) =>
              /\ Head(Fill(conn[w])) \notin {FB_ARRAY, FB_BULK_STRING} => pc'[w] = "closed"
              /\ pc'[w] \in {"aof", "handler"} =>
                    \A i \in 1..Len(value'[w].array) : value'[w].array[i].typ # ""]_vars

\* ------------------------------------------------------------------------
\* C11: round trip: for every Value of a kind the encoder has a case for
\* (SimpleString, SimpleError, BulkString, Null, Array of such), decoding
\* the bytes of its encoding succeeds and yields the same kind and payload.
\* ------------------------------------------------------------------------

\* The bytes of a stream, without the marks between its reads
RECURSIVE Unchunk(_)
Unchunk(s) ==
    IF Len(s) = 0 THEN <<>>
    ELSE (IF Head(s) = CHUNK THEN <<>> ELSE <<Head(s)>>) \o Unchunk(Tail(s))

C11_RoundTrip ==
    (/\ codec.pc = "done"
     /\ codec.v # ZeroValue
     /\ codec.wire = Unchunk(codec.wire))
        => /\ codec.got.err = "nil"
           /\ codec.got.v = codec.v

\* ------------------------------------------------------------------------
\* C16: decoding a BulkString of declared length L yields exactly the L
\* bytes that follow the length line and consumes the CRLF after them, or
\* fails, however the bytes are split into reads: never a shortened or
\* padded payload.
\* ------------------------------------------------------------------------
C16_BulkExactUnderChunking ==
    (/\ codec.pc = "done"
     /\ codec.v.typ = ValueTypBulkString
     /\ codec.got.err = "nil")
        => /\ codec.got.v.typ = ValueTypBulkString
           /\ codec.got.v.bulk = codec.v.bulk
           /\ codec.got.rest = <<>>

\* ------------------------------------------------------------------------
\* C17: an Array whose length line is not a number or is negative makes the
\* decode fail with an error that is returned to the caller: no Value, and
\* no crash of the process.
\* ------------------------------------------------------------------------

\* The line after the tag byte of a frame
RECURSIVE LengthLine(_)
LengthLine(s) ==
    IF Len(s) = 0 \/ Head(s) = CR THEN <<>>
    ELSE <<Head(s)>> \o LengthLine(Tail(s))

\* The line is one or more decimal digits
IsLength(line) ==
    /\ Len(line) > 0
    /\ \A i \in 1..Len(line) : line[i] \in {Digits[j] : j \in 1..10}

C17_MalformedLengthFails ==
    (/\ codec.pc = "done"
     /\ Head(Unchunk(codec.wire)) = FB_ARRAY
     /\ ~IsLength(LengthLine(Tail(Unchunk(codec.wire)))))
        => codec.got.err \notin {"nil", "panic"}

\* ------------------------------------------------------------------------
\* C12: within a connection the requests are processed one after the other:
\* a request is decoded, then (SET/HSET) appended to the log, then its
\* handler runs, then its reply is written, and only then the next request is
\* read; every decoded request gets exactly one reply frame, which answers
\* that request, so the replies come in the order of the requests.
\* ------------------------------------------------------------------------

\* The length of the first line of b with its CRLF, 0 when b has no CRLF
LineLen(b) ==
    IF \E i \in 1..(Len(b) - 1) : b[i] = CR /\ b[i + 1] = LF
    THEN 1 + CHOOSE i \in 1..(Len(b) - 1) :
                /\ b[i] = CR /\ b[i + 1] = LF
                /\ \A j \in 1..(i - 1) : ~(b[j] = CR /\ b[j + 1] = LF)
    ELSE 0

\* The length of the k RESP frames that b starts with, -1 when b does not
\* start with k frames
RECURSIVE FramesLen(_, _)
FramesLen(b, k) ==
    IF k = 0 THEN 0
    ELSE IF LineLen(b) = 0 THEN 0 - 1
    ELSE LET n == LineLen(b)
             line == SubSeq(b, 2, n - 2)
             rest == SubSeq(b, n + 1, Len(b))
             first ==
                 IF b[1] \in {FB_SIMPLE_STRING, FB_SIMPLE_ERROR} THEN n
                 ELSE IF b[1] = FB_BULK_STRING
                      THEN IF line = <<"-", "1">> THEN n
                           ELSE IF /\ IsLength(line)
                                   /\ Len(rest) >= DecVal(line) + 2
                                   /\ rest[DecVal(line) + 1] = CR
                                   /\ rest[DecVal(line) + 2] = LF
                                THEN n + DecVal(line) + 2
                                ELSE 0 - 1
                 ELSE IF b[1] = FB_ARRAY /\ IsLength(line)
                      THEN IF FramesLen(rest, DecVal(line)) < 0 THEN 0 - 1
                           ELSE n + FramesLen(rest, DecVal(line))
                 ELSE 0 - 1
         IN  IF first < 0 THEN 0 - 1
             ELSE IF FramesLen(SubSeq(b, first + 1, Len(b)), k - 1) < 0 THEN 0 - 1
             ELSE first + FramesLen(SubSeq(b, first + 1, Len(b)), k - 1)

\* The bytes are k RESP frames
AreFrames(b, k) == FramesLen(b, k) = Len(b)

\* The order of the stages of one request
Stages ==
    { <<"none", "read">>,
      <<"read", "read">>, <<"read", "aof">>, <<"read", "handler">>, <<"read", "closed">>,
      <<"aof", "write">>, <<"write", "handler">>, <<"write", "read">>,
      <<"handler", "locked">>, <<"handler", "return">>, <<"locked", "return">>,
      <<"return", "read">> }

\* The frame b is a reply that the request req calls for
Answers(req, b) ==
    /\ AreFrames(b, 1)
    /\ Invalid(req) => OneSimpleError(b)
    /\ (~Invalid(req) /\ IsRequest(req, PING, 0)) => b = Marshal(SimpleString(PONG))
    /\ (~Invalid(req) /\ IsRequest(req, PING, 1)) => b = Marshal(SimpleString(req.array[2].bulk))
    /\ (~Invalid(req) /\ IsRequest(req, SET, 2))
          => b \in {Marshal(SimpleString(OK)), Marshal(SimpleError(ErrPersist))}
    /\ (~Invalid(req) /\ IsRequest(req, GET, 1)) => b[1] = FB_BULK_STRING
    /\ (~Invalid(req) /\ WrongArity(req) # {}) => OneSimpleError(b)

\* Worker w ends the processing of a request
Finishes(w) ==
    /\ pc[w] \in {"read", "write", "return"}
    /\ pc[w] = "read" => Decodes(w)
    /\ pc'[w] = "read"
    /\ mainPc' = "accept"

C12_Sequential ==
    [][\A w \in Workers :
          /\ pc'[w] # pc[w] => <<pc[w], pc'[w]>> \in Stages
          /\ Len(conn'[w]) < Len(conn[w]) => pc[w] = "read"
          /\ (pc[w] = "read" /\ pc'[w] = "handler") => ~NamesStore(value'[w])
          /\ (pc[w] = "read" /\ pc'[w] = "aof") => NamesStore(value'[w])
          /\ (pc[w] \in {"aof", "write", "handler", "locked"} /\ pc'[w] # "read")
                => value'[w] = value[w]
          /\ (sent' = sent /\ ~Finishes(w)) => out'[w] = out[w]
          /\ (sent' = sent /\ Finishes(w))
                => /\ out'[w] = out[w] \o Written(w)
                   /\ Answers(IF pc[w] = "read" THEN Read(conn[w]).v ELSE value[w],
                              Written(w))]_vars

\* A worker has answered PING a and PING b, sent in one chunk, with +a and
\* +b in this order, and another SET k a and GET k with +OK and the value
C12_Witness ==
    \E w, u \in Workers :
        /\ pc[w] = "read" /\ conn[w] = <<>>
        /\ out[w] = Marshal(SimpleString(<<"a">>)) \o Marshal(SimpleString(<<"b">>))
        /\ pc[u] = "read" /\ conn[u] = <<>>
        /\ out[u] = Marshal(SimpleString(OK)) \o Marshal(BulkString(<<"a">>))

\* ------------------------------------------------------------------------
\* C13: the log is append-only: through the replay, the appends of all
\* workers and the flushes, the content of the log at a state is a prefix of
\* its content at every later state, and what is added is the encoding of
\* the request of the appending worker, as decoded.
\* ------------------------------------------------------------------------

IsPrefix(s, t) == Len(s) <= Len(t) /\ SubSeq(t, 1, Len(s)) = s

C13_AppendOnly ==
    [][/\ IsPrefix(log, log')
       /\ log' # log =>
             \E w \in Workers :
                 /\ pc[w] = "write"
                 /\ value[w].typ = ValueTypArray
                 /\ log' = log \o Marshal(value[w])]_vars

\* ------------------------------------------------------------------------
\* C14: durability: as long as the process runs, every record appended to
\* the log is in the end forced to stable storage by the flush task; the
\* flush takes the lock that the append takes, so that no flush happens
\* while a worker is inside its append.
\* ------------------------------------------------------------------------
C14_Durability ==
    /\ [][(dirty /\ ~dirty') => (aofMu = 0 /\ \A w \in Workers : pc[w] # "write")]_vars
    /\ [][(dirty /\ ~dirty') => (log' = log /\ aofMu' = 0)]_vars
    /\ dirty ~> (~dirty \/ mainPc = "crashed")

\* Two records were appended and all that the file holds is on disk
C14_Witness ==
    /\ mainPc = "accept"
    /\ Len(appended) >= 2
    /\ log # <<>>
    /\ ~dirty

\* ------------------------------------------------------------------------
\* C15: lock discipline: a worker that reads or writes the mapping of a
\* table, the field-to-value mapping of a hash included, holds the lock of
\* the table; in particular, in no reachable state is the HGETALL of one
\* worker enumerating the fields of a hash while the HSET of another worker
\* is writing a field of that hash.
\* ------------------------------------------------------------------------

\* Worker w is about to enumerate, or is enumerating, the fields of hash
Enumerates(w, hash) ==
    /\ pc[w] = "return"
    /\ IsRequest(value[w], HGETALL, 1)
    /\ ok[w]
    /\ value[w].array[2].bulk = hash

\* Worker w is inside the critical section of an HSET on hash
WritesField(w, hash) ==
    /\ pc[w] = "locked"
    /\ IsRequest(value[w], HSET, 3)
    /\ value[w].array[2].bulk = hash

Hashes == {<<"h">>}

C15_NoEnumerationDuringWrite ==
    \A hash \in Hashes :
        \A w \in Workers :
            Enumerates(w, hash) => \A u \in Workers \ {w} : ~WritesField(u, hash)

C15_LockDiscipline ==
    /\ \A hash \in Hashes :
          \A w \in Workers : Enumerates(w, hash) => w \in HSETsMu.readers
    /\ C15_NoEnumerationDuringWrite

\* ------------------------------------------------------------------------
\* C18: when the append of a SET/HSET request to the log fails, the worker
\* replies the SimpleError "ERR failed to persist data", does not run the
\* handler, leaves both tables as they are and goes on with the next
\* request: a worker is in the handler of a SET/HSET only with its request
\* appended.
\* ------------------------------------------------------------------------

\* Worker w leaves Aof.Write with an error
AppendFails(w) == pc[w] = "write" /\ pc'[w] # "write" /\ appended' = appended

C18_AppendFailure ==
    /\ [][\A w \in Workers :
             /\ AppendFails(w) =>
                   /\ out'[w] = out[w] \o Marshal(SimpleError(ErrPersist))
                   /\ pc'[w] = "read"
                   /\ conn'[w] = conn[w]
                   /\ mainPc' = "accept"
                   /\ SETs' = SETs /\ HSETs' = HSETs /\ executed' = executed
             /\ (pc[w] = "write" /\ pc'[w] = "handler")
                   => appended' = Append(appended, value[w])]_vars
    /\ [](\A w \in Workers :
             (pc[w] \in {"handler", "locked"} /\ NamesStore(value[w]))
                 => \E i \in 1..Len(appended) : appended[i] = value[w])

\* A worker whose append of SET k a failed has answered it with the error
\* and the GET k that came after it with Null
C18_Witness ==
    \E w \in Workers :
        /\ pc[w] = "read" /\ conn[w] = <<>>
        /\ out[w] = Marshal(SimpleError(ErrPersist)) \o Marshal(Null)
        /\ appended = <<>>
        /\ SETs = EmptyMap

\* ------------------------------------------------------------------------
\* C19: a SET or HSET request that is refused with an arity error leaves
\* the log as it is: every record of the log, and every request that was
\* appended, is a SET with exactly 2 arguments or an HSET with exactly 3.
\* ------------------------------------------------------------------------

WellFormedStore(r) == IsRequest(r, SET, 2) \/ IsRequest(r, HSET, 3)

C19_RejectedNotLogged ==
    /\ \A r \in LogRecords : WellFormedStore(r)
    /\ \A i \in 1..Len(appended) : WellFormedStore(appended[i])
    /\ \A w \in Workers :
          (/\ pc[w] = "return"
           /\ \E a \in WrongArity(value[w]) : a[1] \in {SET, HSET} /\ result[w] = ArityError(a[1]))
              => \A i \in 1..Len(appended) : appended[i] # value[w]

\* ------------------------------------------------------------------------
\* C20: deadlock freedom: a worker holds at most one of the three locks
\* (of the StringTable, of the HashTable, of the log) and holds none while
\* it waits for one; in no reachable state is every process blocked on a
\* lock; and, the scheduling being fair, every worker that has decoded a
\* request writes the reply to it in the end.
\* ------------------------------------------------------------------------

\* The locks worker w holds
LocksHeld(w) ==
    {l \in {"aofMu"} : aofMu = w}
        \cup {l \in {"SETsMu"} : SETsMu.writer = w \/ w \in SETsMu.readers}
        \cup {l \in {"HSETsMu"} : HSETsMu.writer = w \/ w \in HSETsMu.readers}

\* The workers that hold the lock, in either mode
Holders(l) == {u \in Workers : l \in LocksHeld(u)}

\* The lock worker w is about to ask for, and whether it asks for all of it
Wants(w) ==
    IF pc[w] = "aof" THEN <<"aofMu", TRUE>>
    ELSE IF pc[w] # "handler" THEN <<"none", FALSE>>
    ELSE IF IsRequest(value[w], SET, 2) THEN <<"SETsMu", TRUE>>
    ELSE IF IsRequest(value[w], GET, 1) THEN <<"SETsMu", FALSE>>
    ELSE IF IsRequest(value[w], HSET, 3) THEN <<"HSETsMu", TRUE>>
    ELSE IF IsRequest(value[w], HGET, 2) \/ IsRequest(value[w], HGETALL, 1)
         THEN <<"HSETsMu", FALSE>>
    ELSE <<"none", FALSE>>

\* Worker w waits for a lock that others hold
Blocked(w) ==
    /\ Wants(w)[1] # "none"
    /\ Holders(Wants(w)[1]) # {}
    /\ \/ Wants(w)[2]
       \/ Wants(w)[1] = "aofMu"
       \/ Wants(w)[1] = "SETsMu" /\ SETsMu.writer # 0
       \/ Wants(w)[1] = "HSETsMu" /\ HSETsMu.writer # 0

\* Worker w is between the decoding of a request and the reply to it
Busy(w) == pc[w] \in {"aof", "write", "handler", "locked", "return"}

C20_NoDeadlockState ==
    /\ \A w \in Workers : Cardinality(LocksHeld(w)) <= 1
    /\ \A w \in Workers : Wants(w)[1] # "none" => LocksHeld(w) = {}
    /\ \A w \in Workers :
          Blocked(w) => \E u \in Holders(Wants(w)[1]) :
                            ~Blocked(u) /\ pc[u] \in {"write", "locked"}
    /\ mainPc = "accept" =>
          ~(aofMu # 0 /\ \A w \in Workers : Blocked(w))

C20_DeadlockFree ==
    /\ []C20_NoDeadlockState
    /\ \A w \in Workers : Busy(w) ~> pc[w] = "read"

\* The same while the process lives
C20_DeadlockFreeWhileRunning ==
    /\ []C20_NoDeadlockState
    /\ \A w \in Workers : Busy(w) ~> (pc[w] = "read" \/ mainPc = "crashed")

====
